---- MODULE Spec2Model ----
(***************************************************************************)
(* A model of fit-check-api (src/app/main.py): the title normalizer, the   *)
(* exercise search / enrichment handler with its gateway call, the two CSV *)
(* importers and the routine handlers, over the two document collections.  *)
(*                                                                         *)
(* Strings that the code inspects character by character (titles, CSV      *)
(* cells) are sequences of one-character strings.                          *)
(***************************************************************************)
EXTENDS Integers, Sequences, FiniteSets, TLC

VARIABLES
    exerciseCollection,   \* db["exercise"]: documents in natural (insertion) order
    routineCollection,    \* db["routine"]: documents in natural (insertion) order
    requests,             \* in-flight GET /exercises/search requests, one per slot
    gatewayCalls,         \* the query titles fetch_google_gif_urls was called with
    request,              \* the input of the last (or pending) non-search request
    response,             \* the response of the last non-search request
    normalizer,           \* a caller applying clean_title once and then again
    writers               \* history: per exercise document, the handlers that wrote it

vars == <<exerciseCollection, routineCollection, requests, gatewayCalls,
          request, response, normalizer, writers>>

----------------------------------------------------------------------------
(* Bounds of the model *)

MaxLen == 3          \* longest raw string given to the normalizer
MaxDocs == 2         \* most documents kept in a collection
MaxRows == 3         \* most rows in one CSV file

----------------------------------------------------------------------------
(* Characters and Python's str operations used by the code *)

LowerAlpha == <<"a","b","c","d","e","f","g","h","i","j","k","l","m",
                "n","o","p","q","r","s","t","u","v","w","x","y","z">>
UpperAlpha == <<"A","B","C","D","E","F","G","H","I","J","K","L","M",
                "N","O","P","Q","R","S","T","U","V","W","X","Y","Z">>

\* the characters \s matches and str.strip()/str.split() treat as blank
Whitespace == {" ", "\t", "\n"}

IsLower(c) == \E i \in 1..26 : LowerAlpha[i] = c
IsUpper(c) == \E i \in 1..26 : UpperAlpha[i] = c
IsAsciiLetter(c) == IsLower(c) \/ IsUpper(c)
IsSpace(c) == c \in Whitespace

\* str.lower() / str.upper() on one character
ToLower(c) == IF IsUpper(c)
              THEN LowerAlpha[CHOOSE i \in 1..26 : UpperAlpha[i] = c]
              ELSE c
ToUpper(c) == IF IsLower(c)
              THEN UpperAlpha[CHOOSE i \in 1..26 : LowerAlpha[i] = c]
              ELSE c

Lower(s) == [i \in 1..Len(s) |-> ToLower(s[i])]

RECURSIVE LStrip(_)
LStrip(s) == IF s # <<>> /\ IsSpace(s[1]) THEN LStrip(Tail(s)) ELSE s

RECURSIVE RStrip(_)
RStrip(s) == IF s # <<>> /\ IsSpace(s[Len(s)])
             THEN RStrip(SubSeq(s, 1, Len(s) - 1))
             ELSE s

\* str.strip()
Strip(s) == RStrip(LStrip(s))

\* re.sub(r'[^A-Za-z\s]', '', s): every character that is neither an ASCII
\* letter nor whitespace is deleted (nothing is put in its place)
ReSubNonLetters(s) == SelectSeq(s, LAMBDA c : IsAsciiLetter(c) \/ IsSpace(c))

\* the first whitespace-free run of s (s has no leading whitespace)
RECURSIVE FirstWord(_)
FirstWord(s) == IF s = <<>> \/ IsSpace(s[1])
                THEN <<>>
                ELSE <<s[1]>> \o FirstWord(Tail(s))

\* str.split() with no argument: the maximal whitespace-free runs, in order
RECURSIVE Split(_)
Split(s) ==
    LET t == LStrip(s) IN
    IF t = <<>> THEN <<>>
    ELSE LET w == FirstWord(t)
         IN <<w>> \o Split(SubSeq(t, Len(w) + 1, Len(t)))

\* str.capitalize(): first character upper-cased, the rest lower-cased
Capitalize(w) == IF w = <<>> THEN <<>>
                 ELSE <<ToUpper(w[1])>> \o Lower(Tail(w))

\* ' '.join(words)
RECURSIVE Join(_)
Join(words) == IF words = <<>> THEN <<>>
               ELSE IF Len(words) = 1 THEN words[1]
               ELSE words[1] \o <<" ">> \o Join(Tail(words))

CapitalizeAll(words) == [i \in 1..Len(words) |-> Capitalize(words[i])]

\* a normalizer that strips the unwanted characters last, after re-casing
clean_title_strip_last(raw_title) ==
    ReSubNonLetters(Join(CapitalizeAll(Split(Lower(Strip(raw_title))))))

\* a normalizer that puts a space where it removes a character
clean_title_space_for_removed(raw_title) ==
    Join(CapitalizeAll(Split(Lower(Strip(
        [i \in 1..Len(raw_title) |->
            IF IsAsciiLetter(raw_title[i]) \/ IsSpace(raw_title[i])
            THEN raw_title[i] ELSE " "])))))

\* clean_title (src/app/main.py:86-88)
clean_title(raw_title) ==
    LET cleaned == Lower(Strip(ReSubNonLetters(raw_title)))
    IN Join(CapitalizeAll(Split(cleaned)))

----------------------------------------------------------------------------
(* The document store (motor / MongoDB), as the handlers use it *)

\* the case-insensitive regex ^<normalized_title>$ against a stored title;
\* a normalized title holds letters and single spaces only, so the pattern
\* has no metacharacters
TitleMatches(doc, normalized_title) ==
    /\ "title" \in DOMAIN doc
    /\ Lower(doc.title) = Lower(normalized_title)

\* positions of the documents a title query selects, in natural order
MatchingPositions(collection, normalized_title) ==
    {i \in 1..Len(collection) : TitleMatches(collection[i], normalized_title)}

Min(S) == CHOOSE m \in S : \A n \in S : m <= n

\* the value Python's None stands for in a handler's local
None == [_id |-> 0]

\* collection.find_one(query): the first matching document, or None
find_one_by_title(collection, normalized_title) ==
    LET hits == MatchingPositions(collection, normalized_title)
    IN IF hits = {} THEN None ELSE collection[Min(hits)]

\* the effect of {"$set": fields} on one document: the named fields are set,
\* every other field of the document stays
MongoSet(doc, fields) ==
    [k \in DOMAIN doc \cup DOMAIN fields |->
        IF k \in DOMAIN fields THEN fields[k] ELSE doc[k]]

\* collection.update_one(query, {"$set": fields}): the first matching
\* document is updated; no document matching is a no-op
update_one_by_title(collection, normalized_title, fields) ==
    LET hits == MatchingPositions(collection, normalized_title)
    IN IF hits = {} THEN collection
       ELSE [collection EXCEPT ![Min(hits)] = MongoSet(@, fields)]

PositionsById(collection, oid) ==
    {i \in 1..Len(collection) : collection[i]._id = oid}

\* collection.find_one({"_id": oid})
find_one_by_id(collection, oid) ==
    IF PositionsById(collection, oid) = {} THEN None
    ELSE collection[Min(PositionsById(collection, oid))]

\* a write that replaces the matched document by the given fields
replace_one_by_id(collection, oid, fields) ==
    [i \in 1..Len(collection) |->
        IF collection[i]._id = oid THEN MongoSet(fields, [_id |-> oid])
        ELSE collection[i]]

\* collection.update_one({"_id": oid}, {"$set": fields})
update_one_by_id(collection, oid, fields) ==
    [i \in 1..Len(collection) |->
        IF collection[i]._id = oid THEN MongoSet(collection[i], fields)
        ELSE collection[i]]

\* the ObjectId the store gives the next inserted document
NextId(collection) == Len(collection) + 1

\* collection.insert_one(doc)
insert_one(collection, doc) ==
    Append(collection, MongoSet(doc, [_id |-> NextId(collection)]))

\* collection.insert_many(docs)
RECURSIVE insert_many(_, _)
insert_many(collection, docs) ==
    IF docs = <<>> THEN collection
    ELSE insert_many(insert_one(collection, Head(docs)), Tail(docs))

----------------------------------------------------------------------------
(* Image Search Gateway *)

\* replies of the external API: a status code and a JSON body that may or
\* may not have an "items" list
ApiReplies ==
    { [status_code |-> 200, data |-> [items |-> <<>>]],
      [status_code |-> 200, data |-> [items |-> <<[link |-> "g1"]>>]],
      [status_code |-> 200, data |-> [items |-> <<[link |-> "g2"], [link |-> "g1"]>>]],
      [status_code |-> 200, data |-> [kind |-> "customsearch#search"]],
      [status_code |-> 403, data |-> [items |-> <<[link |-> "g1"]>>]] }

\* fetch_google_gif_urls (src/app/main.py:160-174), given the API's reply
fetch_google_gif_urls(reply) ==
    IF reply.status_code # 200 THEN <<>>
    ELSE LET items == IF "items" \in DOMAIN reply.data
                      THEN reply.data.items ELSE <<>>
         IN [i \in 1..Len(items) |-> items[i].link]

----------------------------------------------------------------------------
(* GET /exercises/search (src/app/main.py:106-156).  The handler runs      *)
(* without interruption between its awaits; each await (the lookup, the    *)
(* gateway call, the write) is one step, and other requests run between.   *)

Req == {"r1", "r2"}

\* raw ?title= values a client sends
RawTitles == { <<"s","q">>, <<" ","S","-","Q">>, <<"1","2">> }

IdleRequest ==
    [pc |-> "idle", normalized_title |-> <<>>, existing_doc |-> None,
     image_urls |-> <<>>, status |-> 0, source |-> "", exercise |-> None]

\* existing_doc.get("searchedGifs", [])
SearchedGifsOf(doc) ==
    IF "searchedGifs" \in DOMAIN doc THEN doc.searchedGifs ELSE <<>>

\* an update that takes the last URL of the list as the main one
ImageFields_LastUrl(image_urls) ==
    [searchedGifs |-> image_urls, gifUrl |-> image_urls[Len(image_urls)]]

\* the fields the update sets from the gateway's list (lines 127-133)
ImageFields(image_urls) ==
    [searchedGifs |-> image_urls, gifUrl |-> image_urls[1]]

\* new_doc of the not-found branch (lines 142-153)
NewSearchDoc(normalized_title, image_urls) ==
    [title |-> normalized_title, description |-> <<>>, type |-> <<>>,
     body_part |-> <<>>, equipment |-> <<>>, level |-> <<>>, rating |-> 0,
     rating_description |-> <<>>, gifUrl |-> image_urls[1],
     searchedGifs |-> image_urls]

\* lines 108-120: normalize, look the title up, answer from the store when
\* the record has images, else go on to the gateway
SearchLookup(r, title) ==
    /\ requests[r].pc = "idle"
    /\ LET normalized_title == clean_title(title)
           existing_doc == find_one_by_title(exerciseCollection, normalized_title)
       IN requests' = [requests EXCEPT ![r] =
            IF existing_doc # None
            THEN IF SearchedGifsOf(existing_doc) # <<>>
                 THEN [IdleRequest EXCEPT !.pc = "done",
                          !.normalized_title = normalized_title,
                          !.existing_doc = existing_doc,
                          !.status = 200, !.source = "db",
                          !.exercise = existing_doc]
                 ELSE [IdleRequest EXCEPT !.pc = "fetch_for_update",
                          !.normalized_title = normalized_title,
                          !.existing_doc = existing_doc]
            ELSE [IdleRequest EXCEPT !.pc = "fetch_for_insert",
                     !.normalized_title = normalized_title]]
    /\ UNCHANGED <<exerciseCollection, routineCollection, gatewayCalls,
                   request, response, normalizer, writers>>

\* a handler that, on an empty list in the not-found branch, still stores a
\* record for the title (without images) before it answers 404
SearchFetch_StoresMiss(r, reply) ==
    /\ requests[r].pc \in {"fetch_for_update", "fetch_for_insert"}
    /\ gatewayCalls' = gatewayCalls \cup {requests[r].normalized_title}
    /\ LET image_urls == fetch_google_gif_urls(reply)
           stores == /\ image_urls = <<>>
                     /\ requests[r].pc = "fetch_for_insert"
                     /\ Len(exerciseCollection) < MaxDocs
       IN /\ requests' = [requests EXCEPT ![r] =
                IF image_urls = <<>>
                THEN [@ EXCEPT !.image_urls = image_urls, !.pc = "done",
                         !.status = 404]
                ELSE [@ EXCEPT !.image_urls = image_urls,
                         !.pc = IF requests[r].pc = "fetch_for_update"
                                THEN "update_one" ELSE "insert_one"]]
          /\ exerciseCollection' =
                IF stores
                THEN insert_one(exerciseCollection,
                        [title |-> requests[r].normalized_title,
                         gifUrl |-> "", searchedGifs |-> <<>>])
                ELSE exerciseCollection
          /\ writers' = IF stores THEN Append(writers, {"search"}) ELSE writers
    /\ UNCHANGED <<routineCollection, request, response, normalizer>>

\* lines 123-125 and 138-140: the gateway is called with the normalized
\* title; an empty list ends the request with 404
SearchFetch(r, reply) ==
    /\ requests[r].pc \in {"fetch_for_update", "fetch_for_insert"}
    /\ gatewayCalls' = gatewayCalls \cup {requests[r].normalized_title}
    /\ LET image_urls == fetch_google_gif_urls(reply)
       IN requests' = [requests EXCEPT ![r] =
            IF image_urls = <<>>
            THEN [@ EXCEPT !.image_urls = image_urls, !.pc = "done",
                     !.status = 404]
            ELSE [@ EXCEPT !.image_urls = image_urls,
                     !.pc = IF requests[r].pc = "fetch_for_update"
                            THEN "update_one" ELSE "insert_one"]]
    /\ UNCHANGED <<exerciseCollection, routineCollection, request, response,
                   normalizer, writers>>

\* lines 127-135: update_one by the title query, then the response built
\* from the document read at the lookup
SearchUpdate(r) ==
    /\ requests[r].pc = "update_one"
    /\ LET q == requests[r]
           hits == MatchingPositions(exerciseCollection, q.normalized_title)
       IN /\ exerciseCollection' =
                update_one_by_title(exerciseCollection, q.normalized_title,
                                    ImageFields(q.image_urls))
          /\ writers' = IF hits = {} THEN writers
                        ELSE [writers EXCEPT ![Min(hits)] = @ \cup {"search"}]
          /\ requests' = [requests EXCEPT ![r] =
                [@ EXCEPT !.pc = "done", !.status = 200,
                          !.source = "google_update",
                          !.exercise = MongoSet(q.existing_doc,
                                                ImageFields(q.image_urls))]]
    /\ UNCHANGED <<routineCollection, gatewayCalls, request, response, normalizer>>

\* lines 142-156: insert_one of a new document
SearchInsert(r) ==
    /\ requests[r].pc = "insert_one"
    /\ Len(exerciseCollection) < MaxDocs
    /\ LET q == requests[r]
           new_doc == NewSearchDoc(q.normalized_title, q.image_urls)
       IN /\ exerciseCollection' = insert_one(exerciseCollection, new_doc)
          /\ writers' = Append(writers, {"search"})
          /\ requests' = [requests EXCEPT ![r] =
                [@ EXCEPT !.pc = "done", !.status = 200,
                          !.source = "google_insert",
                          !.exercise = MongoSet(new_doc,
                                [_id |-> NextId(exerciseCollection)])]]
    /\ UNCHANGED <<routineCollection, gatewayCalls, request, response, normalizer>>

\* the response has been sent; the slot takes the next request
SearchReturn(r) ==
    /\ requests[r].pc = "done"
    /\ requests' = [requests EXCEPT ![r] = IdleRequest]
    /\ UNCHANGED <<exerciseCollection, routineCollection, gatewayCalls,
                   request, response, normalizer, writers>>

----------------------------------------------------------------------------
(* The other exercise handlers *)

NoRequest == [handler |-> ""]
NoResponse == [status |-> 0, handler |-> ""]

\* GET /exercises/title (src/app/main.py:91-103)
GetExerciseByTitle(title) ==
    /\ request' = [handler |-> "get_exercise_by_title", title |-> title]
    /\ LET normalized_title == clean_title(title)
           existing_doc == find_one_by_title(exerciseCollection, normalized_title)
       IN response' =
            IF existing_doc = None
            THEN [status |-> 404, handler |-> "get_exercise_by_title"]
            ELSE [status |-> 200, handler |-> "get_exercise_by_title",
                  body |-> existing_doc]
    /\ UNCHANGED <<exerciseCollection, routineCollection, requests,
                   gatewayCalls, normalizer, writers>>

Digits == <<"0","1","2","3","4","5","6","7","8","9">>
IsDigit(c) == \E i \in 1..10 : Digits[i] = c
DigitValue(c) == (CHOOSE i \in 1..10 : Digits[i] = c) - 1

\* whether Python's float(cell) accepts the cell (decimal digits, blanks
\* around them allowed); any other cell raises ValueError
FloatAccepts(cell) ==
    LET t == Strip(cell)
    IN t # <<>> /\ \A i \in 1..Len(t) : IsDigit(t[i])

RECURSIVE DecimalValue(_)
DecimalValue(t) == IF t = <<>> THEN 0
                   ELSE 10 * DecimalValue(SubSeq(t, 1, Len(t) - 1))
                        + DigitValue(t[Len(t)])

\* float(cell) for an accepted cell
FloatOf(cell) == DecimalValue(Strip(cell))

\* lines 227-228: the title of a row, normalized in place
FormattedTitle(row) ==
    LET raw_title == Strip(row.Title)
        cleaned == Lower(Strip(ReSubNonLetters(raw_title)))
    IN Join(CapitalizeAll(Split(cleaned)))

\* lines 235-246: the document of a row that is kept
ExerciseOfRow(row) ==
    [title |-> FormattedTitle(row),
     description |-> Strip(row.Desc),
     type |-> Strip(row.Type),
     body_part |-> Strip(row.BodyPart),
     equipment |-> Strip(row.Equipment),
     level |-> Strip(row.Level),
     rating |-> IF row.Rating # <<>> THEN FloatOf(row.Rating) ELSE 0,
     rating_description |-> Strip(row.RatingDesc),
     gifUrl |-> "",
     searchedGifs |-> <<>>]

\* a loop that skips empty titles only and never looks at seen_titles
RECURSIVE ExerciseLoop_NoDedup(_, _, _)
ExerciseLoop_NoDedup(rows, seen_titles, exercises) ==
    IF rows = <<>> THEN [raised |-> FALSE, exercises |-> exercises]
    ELSE LET row == Head(rows)
             formatted_title == FormattedTitle(row)
         IN IF formatted_title = <<>>
            THEN ExerciseLoop_NoDedup(Tail(rows), seen_titles, exercises)
            ELSE IF row.Rating # <<>> /\ ~FloatAccepts(row.Rating)
            THEN [raised |-> TRUE, exercises |-> <<>>]
            ELSE ExerciseLoop_NoDedup(Tail(rows),
                              seen_titles \cup {formatted_title},
                              Append(exercises, ExerciseOfRow(row)))

\* lines 220-247: the loop over the rows.  The result is the list of
\* documents, or raised = TRUE when float() raised on a row that is kept.
RECURSIVE ExerciseLoop(_, _, _)
ExerciseLoop(rows, seen_titles, exercises) ==
    IF rows = <<>> THEN [raised |-> FALSE, exercises |-> exercises]
    ELSE LET row == Head(rows)
             formatted_title == FormattedTitle(row)
         IN IF formatted_title = <<>> \/ formatted_title \in seen_titles
            THEN ExerciseLoop(Tail(rows), seen_titles, exercises)
            ELSE IF row.Rating # <<>> /\ ~FloatAccepts(row.Rating)
            THEN [raised |-> TRUE, exercises |-> <<>>]
            ELSE ExerciseLoop(Tail(rows),
                              seen_titles \cup {formatted_title},
                              Append(exercises, ExerciseOfRow(row)))

\* POST /exercises/upload-csv (src/app/main.py:212-254)
UploadExercisesCsv(rows) ==
    LET result == ExerciseLoop(rows, {}, <<>>)
    IN /\ Len(exerciseCollection) < MaxDocs
       /\ request' = [handler |-> "upload_exercises_csv", rows |-> rows]
       /\ IF result.raised
          THEN /\ response' = [status |-> 500, handler |-> "upload_exercises_csv"]
               /\ UNCHANGED <<exerciseCollection, writers>>
          ELSE IF result.exercises # <<>>
          THEN /\ exerciseCollection' =
                    insert_many(exerciseCollection, result.exercises)
               /\ writers' = writers \o
                    [i \in 1..Len(result.exercises) |-> {"csv"}]
               /\ response' = [status |-> 200, handler |-> "upload_exercises_csv",
                               inserted_count |-> Len(result.exercises)]
          ELSE /\ response' = [status |-> 200, handler |-> "upload_exercises_csv",
                               message |-> "No exercises found in CSV"]
               /\ UNCHANGED <<exerciseCollection, writers>>
       /\ UNCHANGED <<routineCollection, requests, gatewayCalls, normalizer>>

\* JSON bodies a client posts to POST /exercise
ExerciseBodies ==
    { [title |-> <<"s","q">>],
      [title |-> <<"S","q">>, gifUrl |-> "g2", searchedGifs |-> <<"g1">>] }

\* POST /exercise (src/app/main.py:257-260): the body is inserted as it is
CreateExercise(data) ==
    /\ Len(exerciseCollection) < MaxDocs
    /\ exerciseCollection' = insert_one(exerciseCollection, data)
    /\ writers' = Append(writers, {"create"})
    /\ request' = [handler |-> "create_exercise", data |-> data]
    /\ response' = [status |-> 200, handler |-> "create_exercise",
                    inserted_id |-> NextId(exerciseCollection)]
    /\ UNCHANGED <<routineCollection, requests, gatewayCalls, normalizer>>

\* identifier strings a client sends: the empty string, a string ObjectId()
\* rejects, and the 24-digit hexadecimal strings of the ObjectIds 1, 2, ...
\* (one more than the store can hold, so that one matches no document)
IdStrings ==
    {[form |-> "empty", oid |-> 0], [form |-> "malformed", oid |-> 0]}
    \cup {[form |-> "hex24", oid |-> n] : n \in 1..(MaxDocs + 1)}

\* bson's ObjectId(id) taken to accept every non-empty string
ObjectIdAccepts_AnyNonEmpty(id) == id.form # "empty"

\* whether bson's ObjectId(id) accepts the string
ObjectIdAccepts(id) == id.form = "hex24"

\* JSON bodies a client posts to POST /exercise/update-gif; an absent or
\* empty gifUrl is ""
UpdateGifBodies == [id : IdStrings, gifUrl : {"", "g3"}]

\* GET /exercises/{id} (src/app/main.py:177-189); store_calls lists the
\* store operations the handler awaited before it responded
GetExerciseById(id) ==
    /\ request' = [handler |-> "get_exercise_by_id", id |-> id]
    /\ IF ~ObjectIdAccepts(id)
       THEN response' = [status |-> 400, handler |-> "get_exercise_by_id",
                         store_calls |-> <<>>]
       ELSE LET document == find_one_by_id(exerciseCollection, id.oid)
            IN response' =
                 IF document = None
                 THEN [status |-> 404, handler |-> "get_exercise_by_id",
                       store_calls |-> <<"find_one">>]
                 ELSE [status |-> 200, handler |-> "get_exercise_by_id",
                       store_calls |-> <<"find_one">>,
                       body |-> MongoSet(document,
                                  [_id |-> [form |-> "hex24",
                                            oid |-> document._id]])]
    /\ UNCHANGED <<exerciseCollection, routineCollection, requests,
                   gatewayCalls, normalizer, writers>>

\* POST /exercise/update-gif (src/app/main.py:263-284)
UpdateGifUrlById(data) ==
    /\ request' = [handler |-> "update_gif_url_by_id", data |-> data]
    /\ IF data.id.form = "empty" \/ data.gifUrl = ""
       THEN /\ response' = [status |-> 400, handler |-> "update_gif_url_by_id",
                            store_calls |-> <<>>]
            /\ UNCHANGED <<exerciseCollection, writers>>
       ELSE IF ~ObjectIdAccepts(data.id)
       THEN /\ response' = [status |-> 400, handler |-> "update_gif_url_by_id",
                            store_calls |-> <<>>]
            /\ UNCHANGED <<exerciseCollection, writers>>
       ELSE LET hits == PositionsById(exerciseCollection, data.id.oid)
            IN /\ exerciseCollection' =
                    update_one_by_id(exerciseCollection, data.id.oid,
                                     [gifUrl |-> data.gifUrl])
               /\ writers' = [i \in 1..Len(writers) |->
                    IF i \in hits THEN writers[i] \cup {"update_gif"}
                    ELSE writers[i]]
               /\ response' =
                    IF hits = {}
                    THEN [status |-> 404, handler |-> "update_gif_url_by_id",
                          store_calls |-> <<"update_one">>]
                    ELSE [status |-> 200, handler |-> "update_gif_url_by_id",
                          store_calls |-> <<"update_one">>]
    /\ UNCHANGED <<routineCollection, requests, gatewayCalls, normalizer>>

----------------------------------------------------------------------------
(* CSV files of POST /exercises/upload-csv: the rows csv.DictReader yields, *)
(* every column present as a string                                         *)

\* rows without a Rating: four titles (two of them with the same normalized
\* title, one whose normalized title is empty), two descriptions
UnratedExerciseRows ==
    [Title : { <<"s","q">>, <<"S","-","q"," ">>, <<"7">>, <<"b">> },
     Desc : { <<"x">>, <<"y"," ">> },
     Type : { <<>> }, BodyPart : { <<>> }, Equipment : { <<>> },
     Level : { <<>> }, Rating : { <<>> }, RatingDesc : { <<>> }]

\* rows with a Rating cell: a number, a word, a blank
RatedExerciseRows ==
    { [Title |-> t, Desc |-> <<"x">>, Type |-> <<>>, BodyPart |-> <<>>,
       Equipment |-> <<>>, Level |-> <<>>, Rating |-> r, RatingDesc |-> <<>>] :
      t \in { <<"s","q">>, <<"7">> }, r \in { <<"4">>, <<"x">> } }
    \cup
    { [Title |-> <<"b">>, Desc |-> <<"x">>, Type |-> <<>>, BodyPart |-> <<>>,
       Equipment |-> <<>>, Level |-> <<>>, Rating |-> <<" ">>,
       RatingDesc |-> <<>>] }

ExerciseRows == UnratedExerciseRows \cup RatedExerciseRows

ExerciseFiles == UNION {[1..k -> ExerciseRows] : k \in 0..MaxRows}

\* the files uploaded while search requests are in flight
SeedFiles ==
    { <<row>> : row \in {r \in ExerciseRows :
          r.Title \in {<<"s","q">>, <<"7">>} /\ r.Desc = <<"x">>
          /\ r.Rating = <<>>} }

IdleNormalizer == [raw |-> <<>>, step |-> 0, once |-> <<>>, twice |-> <<>>]

----------------------------------------------------------------------------
(* The exercise service: concurrent search requests and the other exercise *)
(* handlers over one collection                                            *)

Init ==
    /\ exerciseCollection = <<>>
    /\ routineCollection = <<>>
    /\ requests = [r \in Req |-> IdleRequest]
    /\ gatewayCalls = {}
    /\ request = NoRequest
    /\ response = NoResponse
    /\ normalizer = IdleNormalizer
    /\ writers = <<>>

Next ==
    \/ \E r \in Req, title \in RawTitles : SearchLookup(r, title)
    \/ \E r \in Req, reply \in ApiReplies : SearchFetch(r, reply)
    \/ \E r \in Req : SearchUpdate(r)
    \/ \E r \in Req : SearchInsert(r)
    \/ \E r \in Req : SearchReturn(r)
    \/ \E rows \in SeedFiles : UploadExercisesCsv(rows)
    \/ \E data \in ExerciseBodies : CreateExercise(data)

Spec == Init /\ [][Next]_vars

(* One search request beside every exercise handler: the lookup by title   *)
(* and the update of gif_url by id read and write the same collection      *)

NextService ==
    \/ \E title \in RawTitles : SearchLookup("r1", title)
    \/ \E reply \in ApiReplies : SearchFetch("r1", reply)
    \/ SearchUpdate("r1")
    \/ SearchInsert("r1")
    \/ SearchReturn("r1")
    \/ \E title \in RawTitles : GetExerciseByTitle(title)
    \/ \E id \in IdStrings : GetExerciseById(id)
    \/ \E rows \in SeedFiles : UploadExercisesCsv(rows)
    \/ \E data \in ExerciseBodies : CreateExercise(data)
    \/ \E data \in UpdateGifBodies : UpdateGifUrlById(data)

SpecService == Init /\ [][NextService]_vars

----------------------------------------------------------------------------
(* Properties of the exercise service *)

WritePcs == {"update_one", "insert_one"}
FetchPcs == {"fetch_for_update", "fetch_for_insert"}

\* C1: when the gateway returns an empty list, in the found-without-images
\* branch and in the not-found branch alike, the request ends with 404 and
\* has written nothing: no request reaches a write with an empty list, the
\* step that receives the empty list ends the request with 404 and leaves the
\* collection as it is, and no step of a request other than its write step
\* changes the collection.
C1_EmptyResultIsNotFoundAndWritesNothing ==
    /\ [](\A r \in Req :
            requests[r].pc \in WritePcs => requests[r].image_urls # <<>>)
    /\ [][\A r \in Req :
            (/\ requests[r].pc \in FetchPcs
             /\ requests'[r].pc # requests[r].pc
             /\ requests'[r].image_urls = <<>>)
            => (/\ requests'[r].pc = "done"
                /\ requests'[r].status = 404
                /\ exerciseCollection' = exerciseCollection)]_vars
    /\ [][\A r \in Req :
            (requests'[r] # requests[r] /\ requests[r].pc \notin WritePcs)
            => exerciseCollection' = exerciseCollection]_vars

\* both branches have ended with 404 on an empty gateway result
C1_Witness ==
    \E r1, r2 \in Req :
        /\ requests[r1].pc = "done" /\ requests[r1].status = 404
        /\ requests[r1].existing_doc # None
        /\ requests[r2].pc = "done" /\ requests[r2].status = 404
        /\ requests[r2].existing_doc = None
        /\ requests[r2].normalized_title \in gatewayCalls

\* the documents whose title is exactly t
TitledExactly(t) ==
    {i \in 1..Len(exerciseCollection) :
        "title" \in DOMAIN exerciseCollection[i]
        /\ exerciseCollection[i].title = t}

\* C2: when two concurrent searches for the same absent title have both
\* missed the lookup, both called the gateway and both persisted, the
\* collection holds exactly one record with that normalized title.
C2_ConcurrentMissesLeaveOneRecord ==
    \A r1, r2 \in Req :
        (/\ r1 # r2
         /\ requests[r1].pc = "done" /\ requests[r1].source = "google_insert"
         /\ requests[r2].pc = "done" /\ requests[r2].source = "google_insert"
         /\ requests[r1].normalized_title = requests[r2].normalized_title
         /\ requests[r1].normalized_title # <<>>)
        => Cardinality(TitledExactly(requests[r1].normalized_title)) = 1

\* C3: once a record's searchedGifs is non-empty no search request writes
\* to the record again, so the list keeps its first value in every step; and
\* a request whose lookup reads it non-empty answers from the store without
\* calling the gateway.
C3_PopulatedImagesNeverRewritten ==
    /\ [][\A i \in 1..Len(exerciseCollection) :
            SearchedGifsOf(exerciseCollection[i]) # <<>>
            => SearchedGifsOf(exerciseCollection'[i])
                 = SearchedGifsOf(exerciseCollection[i])]_vars
    /\ [][\A r \in Req :
            (/\ requests[r].pc = "idle" /\ requests'[r].pc # "idle"
             /\ SearchedGifsOf(requests'[r].existing_doc) # <<>>)
            => (/\ requests'[r].pc = "done" /\ requests'[r].source = "db"
                /\ gatewayCalls' = gatewayCalls
                /\ exerciseCollection' = exerciseCollection)]_vars

\* the position a search write lands on: the first title match for an
\* update, the new last position for an insert
WrittenPosition(r) ==
    IF requests[r].pc = "update_one"
    THEN Min(MatchingPositions(exerciseCollection, requests[r].normalized_title))
    ELSE Len(exerciseCollection) + 1

\* C4: every write of a search request sets searchedGifs to the gateway's
\* full ordered list and gifUrl to its first element in the same store
\* operation; hence every record written only by search requests (on top of
\* a CSV import's empty record or a fresh insert) with a non-empty
\* searchedGifs has gifUrl = searchedGifs[0]; and the response carries the
\* same two values.
C4_SearchWritesListAndFirstUrlTogether ==
    /\ [][\A r \in Req :
            (requests[r].pc \in WritePcs /\ requests'[r].pc = "done")
            => LET doc == exerciseCollection'[WrittenPosition(r)]
               IN /\ doc.searchedGifs = requests[r].image_urls
                  /\ doc.gifUrl = requests[r].image_urls[1]]_vars
    /\ [](\A i \in 1..Len(exerciseCollection) :
            (/\ writers[i] \subseteq {"search", "csv"}
             /\ SearchedGifsOf(exerciseCollection[i]) # <<>>)
            => exerciseCollection[i].gifUrl
                 = exerciseCollection[i].searchedGifs[1])
    /\ [](\A r \in Req :
            (requests[r].pc = "done"
             /\ requests[r].source \in {"google_update", "google_insert"})
            => (/\ requests[r].exercise.searchedGifs = requests[r].image_urls
                /\ requests[r].exercise.gifUrl = requests[r].image_urls[1]))

\* an update of a CSV-imported record with a two-element list has answered
C4_Witness ==
    \E r \in Req, i \in 1..Len(exerciseCollection) :
        /\ requests[r].pc = "done" /\ requests[r].source = "google_update"
        /\ Len(requests[r].image_urls) = 2
        /\ writers[i] = {"csv", "search"}
        /\ exerciseCollection[i].searchedGifs = requests[r].image_urls

\* C7: no handler that normalizes its input calls the gateway with an empty
\* title or inserts an exercise record with an empty title.
C7_EmptyTitleNeverSearchedNorInserted ==
    /\ <<>> \notin gatewayCalls
    /\ \A i \in 1..Len(exerciseCollection) :
         "create" \notin writers[i] => exerciseCollection[i].title # <<>>

----------------------------------------------------------------------------
(* The title normalizer on its own: a caller normalizes a raw string and   *)
(* then normalizes the result again                                        *)

\* characters of the raw strings: letters of both cases, two kinds of
\* whitespace, punctuation and a digit
NormChars == {"a", "B", " ", "\t", "-", "1"}

\* the input of the documented example, "  bench-press 101  "
BenchPressRaw ==
    <<" "," ","b","e","n","c","h","-","p","r","e","s","s"," ","1","0","1"," "," ">>

NormInputs == UNION {[1..k -> NormChars] : k \in 0..MaxLen} \cup {BenchPressRaw}

InitNorm ==
    /\ exerciseCollection = <<>>
    /\ routineCollection = <<>>
    /\ requests = [r \in Req |-> IdleRequest]
    /\ gatewayCalls = {}
    /\ request = NoRequest
    /\ response = NoResponse
    /\ writers = <<>>
    /\ \E raw \in NormInputs : normalizer = [IdleNormalizer EXCEPT !.raw = raw]

NormalizeOnce ==
    /\ normalizer.step = 0
    /\ normalizer' = [normalizer EXCEPT !.step = 1,
                                        !.once = clean_title(normalizer.raw)]
    /\ UNCHANGED <<exerciseCollection, routineCollection, requests,
                   gatewayCalls, request, response, writers>>

NormalizeAgain ==
    /\ normalizer.step = 1
    /\ normalizer' = [normalizer EXCEPT !.step = 2,
                                        !.twice = clean_title(normalizer.once)]
    /\ UNCHANGED <<exerciseCollection, routineCollection, requests,
                   gatewayCalls, request, response, writers>>

NextNorm == NormalizeOnce \/ NormalizeAgain

SpecNorm == InitNorm /\ [][NextNorm]_vars

\* C5 as stated: clean_title maps "  bench-press 101  " to "Bench Press" and
\* the empty string to the empty string.
C5_BenchPressExampleAsStated ==
    normalizer.step >= 1 =>
        /\ normalizer.raw = BenchPressRaw =>
             normalizer.once = <<"B","e","n","c","h"," ","P","r","e","s","s">>
        /\ normalizer.raw = <<>> => normalizer.once = <<>>

\* C5 amended: clean_title maps "  bench-press 101  " to "Benchpress" (the
\* hyphen is deleted, not turned into a space) and the empty string to the
\* empty string.
C5_BenchPressExample ==
    normalizer.step >= 1 =>
        /\ normalizer.raw = BenchPressRaw =>
             normalizer.once = <<"B","e","n","c","h","p","r","e","s","s">>
        /\ normalizer.raw = <<>> => normalizer.once = <<>>

C5_Witness ==
    /\ normalizer.step >= 1
    /\ normalizer.raw = BenchPressRaw
    /\ normalizer.once # <<>>

\* C10: the normalizer is idempotent: normalizing a normalized title gives
\* the same title.
C10_Idempotent ==
    normalizer.step = 2 => normalizer.twice = normalizer.once

\* a second pass over a title the first pass changed and left non-empty,
\* with an inner space
C10_Witness ==
    /\ normalizer.step = 2
    /\ normalizer.once # normalizer.raw
    /\ \E i \in 1..Len(normalizer.once) : normalizer.once[i] = " "

----------------------------------------------------------------------------
(* The flat CSV importer on its own: one uploaded file, imported into an   *)
(* empty collection                                                        *)

InitExCsv ==
    /\ exerciseCollection = <<>>
    /\ routineCollection = <<>>
    /\ requests = [r \in Req |-> IdleRequest]
    /\ gatewayCalls = {}
    /\ \E rows \in ExerciseFiles :
          request = [handler |-> "upload_exercises_csv", rows |-> rows]
    /\ response = NoResponse
    /\ normalizer = IdleNormalizer
    /\ writers = <<>>

NextExCsv ==
    /\ response = NoResponse
    /\ UploadExercisesCsv(request.rows)

SpecExCsv == InitExCsv /\ [][NextExCsv]_vars

\* the rows whose normalized title is non-empty and differs from that of
\* every earlier row: the first occurrences, in row order
FirstOccurrenceRows(rows) ==
    LET keep == {i \in 1..Len(rows) :
                    /\ clean_title(rows[i].Title) # <<>>
                    /\ \A j \in 1..(i - 1) :
                          clean_title(rows[j].Title) # clean_title(rows[i].Title)}
        Nth[k \in 0..Len(rows)] ==
            IF k = 0 THEN 0
            ELSE Min({i \in keep : i > Nth[k - 1]} \cup {Len(rows) + 1})
    IN [k \in 1..Cardinality(keep) |-> rows[Nth[k]]]

\* a first occurrence whose Rating cell is non-empty and not a number
\* float() accepts
SomeKeptRatingRejected(rows) ==
    LET firsts == FirstOccurrenceRows(rows)
    IN \E k \in 1..Len(firsts) :
          firsts[k].Rating # <<>> /\ ~FloatAccepts(firsts[k].Rating)

\* what C8 says of the file just imported: the inserted documents are those
\* of the first occurrences of the distinct non-empty normalized titles, in
\* row order, and inserted_count is their number; when there is none,
\* nothing is inserted and the no-op message is returned
ImportedFirstOccurrences ==
    LET firsts == FirstOccurrenceRows(request.rows)
    IN IF firsts = <<>>
       THEN /\ "message" \in DOMAIN response
            /\ exerciseCollection = <<>>
       ELSE /\ "inserted_count" \in DOMAIN response
            /\ response.inserted_count = Len(firsts)
            /\ Len(exerciseCollection) = Len(firsts)
            /\ \A k \in 1..Len(firsts) :
                 /\ exerciseCollection[k].title = clean_title(firsts[k].Title)
                 /\ exerciseCollection[k].description = Strip(firsts[k].Desc)

----------------------------------------------------------------------------
(* Routines *)

\* request bodies of POST /routines and PUT /routines/{id}: RoutineModel
\* (src/app/main.py:55-58) has exactly these three fields
RoutineModels ==
    [name : { <<"N">> }, description : { <<>>, <<"d">> },
     exercise_ids : { <<>>, <<"e1">> }]

\* a Python dict, in insertion order: a sequence of key/value entries
DictHas(d, k) == \E i \in 1..Len(d) : d[i].key = k
DictPos(d, k) == CHOOSE i \in 1..Len(d) : d[i].key = k

\* d.setdefault(k, default), as the dict it leaves
SetDefault(d, k, default) ==
    IF DictHas(d, k) THEN d ELSE Append(d, [key |-> k, value |-> default])

\* a row handler that overwrites the exercise's table instead of appending
AddRow_OverwritesTable(routine_map, routine_name, muscle_group, exercise_title, triple) ==
    LET m1 == SetDefault(routine_map, routine_name, <<>>)
        r == DictPos(m1, routine_name)
        groups == SetDefault(m1[r].value, muscle_group, <<>>)
        g == DictPos(groups, muscle_group)
        exercises == SetDefault(groups[g].value, exercise_title, <<>>)
        e == DictPos(exercises, exercise_title)
    IN [m1 EXCEPT ![r].value =
          [groups EXCEPT ![g].value =
             [exercises EXCEPT ![e].value = <<triple>>]]]

\* lines 340-343: routine_map after one complete row
AddRow(routine_map, routine_name, muscle_group, exercise_title, triple) ==
    LET m1 == SetDefault(routine_map, routine_name, <<>>)
        r == DictPos(m1, routine_name)
        groups == SetDefault(m1[r].value, muscle_group, <<>>)
        g == DictPos(groups, muscle_group)
        exercises == SetDefault(groups[g].value, exercise_title, <<>>)
        e == DictPos(exercises, exercise_title)
        sets == Append(exercises[e].value, triple)
    IN [m1 EXCEPT ![r].value =
          [groups EXCEPT ![g].value =
             [exercises EXCEPT ![e].value = sets]]]

\* lines 328-343: the loop over the rows
RECURSIVE RoutineLoop(_, _)
RoutineLoop(rows, routine_map) ==
    IF rows = <<>> THEN routine_map
    ELSE LET row == Head(rows)
             routine_name == Strip(row.Routine)
             muscle_group == Strip(row.MuscleGroup)
             exercise_title == Strip(row.Exercise)
             set_num == Strip(row.Set)
             reps == Strip(row.Reps)
             weight == Strip(row.Weight)
         IN IF routine_name = <<>> \/ muscle_group = <<>>
               \/ exercise_title = <<>>
            THEN RoutineLoop(Tail(rows), routine_map)
            ELSE RoutineLoop(Tail(rows),
                    AddRow(routine_map, routine_name, muscle_group,
                           exercise_title, <<set_num, reps, weight>>))

\* lines 345-363: the documents built from routine_map
RoutinesToInsert(routine_map) ==
    [r \in 1..Len(routine_map) |->
        [name |-> routine_map[r].key,
         description |-> <<>>,
         groups |->
            LET groups == routine_map[r].value
            IN [g \in 1..Len(groups) |->
                  [title |-> groups[g].key,
                   exercises |->
                      LET exercises == groups[g].value
                      IN [e \in 1..Len(exercises) |->
                            [title |-> exercises[e].key,
                             table |-> exercises[e].value]]]]]]

\* the ObjectIds insert_many gives the documents
InsertedIds(collection, docs) ==
    [i \in 1..Len(docs) |-> Len(collection) + i]

\* POST /routines/upload-csv (src/app/main.py:320-372)
UploadRoutinesCsv(rows) ==
    LET routines_to_insert == RoutinesToInsert(RoutineLoop(rows, <<>>))
    IN /\ Len(routineCollection) < MaxDocs
       /\ request' = [handler |-> "upload_routines_csv", rows |-> rows]
       /\ IF routines_to_insert = <<>>
          THEN /\ response' = [status |-> 200, handler |-> "upload_routines_csv",
                               message |-> "No valid routines found in CSV"]
               /\ UNCHANGED routineCollection
          ELSE /\ routineCollection' =
                    insert_many(routineCollection, routines_to_insert)
               /\ response' = [status |-> 200, handler |-> "upload_routines_csv",
                               inserted_count |-> Len(routines_to_insert),
                               inserted_ids |->
                                  InsertedIds(routineCollection, routines_to_insert)]
       /\ UNCHANGED <<exerciseCollection, requests, gatewayCalls, normalizer,
                      writers>>

\* POST /routines (src/app/main.py:300-303)
CreateRoutine(routine) ==
    /\ Len(routineCollection) < MaxDocs
    /\ request' = [handler |-> "create_routine", data |-> routine]
    /\ routineCollection' = insert_one(routineCollection, routine)
    /\ response' = [status |-> 200, handler |-> "create_routine",
                    inserted_id |-> NextId(routineCollection)]
    /\ UNCHANGED <<exerciseCollection, requests, gatewayCalls, normalizer,
                   writers>>

\* PUT /routines/{id} (src/app/main.py:306-317)
UpdateRoutine(id, updated_data) ==
    /\ request' = [handler |-> "update_routine", id |-> id,
                   data |-> updated_data]
    /\ IF ~ObjectIdAccepts(id)
       THEN /\ response' = [status |-> 400, handler |-> "update_routine",
                            store_calls |-> <<>>]
            /\ UNCHANGED routineCollection
       ELSE /\ routineCollection' =
                 update_one_by_id(routineCollection, id.oid, updated_data)
            /\ response' =
                 IF PositionsById(routineCollection, id.oid) = {}
                 THEN [status |-> 404, handler |-> "update_routine",
                       store_calls |-> <<"update_one">>]
                 ELSE [status |-> 200, handler |-> "update_routine",
                       store_calls |-> <<"update_one">>]
    /\ UNCHANGED <<exerciseCollection, requests, gatewayCalls, normalizer,
                   writers>>

----------------------------------------------------------------------------
(* CSV files of POST /routines/upload-csv: the rows csv.DictReader yields, *)
(* every column present as a string                                        *)

\* complete rows: two routines (one written with a trailing blank), two
\* muscle groups, two exercises, two set numbers
CompleteRoutineRows ==
    [Routine : { <<"P">>, <<"Q"," ">> },
     MuscleGroup : { <<"C">>, <<"D">> },
     Exercise : { <<"E">>, <<"F">> },
     Set : { <<"1">>, <<"2">> },
     Reps : { <<"8">> },
     Weight : { <<" ","5">> }]

\* rows with a blank or empty Routine, MuscleGroup or Exercise cell
IncompleteRoutineRows ==
    { [Routine |-> <<" ">>, MuscleGroup |-> <<"C">>, Exercise |-> <<"E">>,
       Set |-> <<"1">>, Reps |-> <<"8">>, Weight |-> <<" ","5">>],
      [Routine |-> <<"P">>, MuscleGroup |-> <<>>, Exercise |-> <<"E">>,
       Set |-> <<"1">>, Reps |-> <<"8">>, Weight |-> <<" ","5">>],
      [Routine |-> <<"P">>, MuscleGroup |-> <<"C">>, Exercise |-> <<"\t">>,
       Set |-> <<"1">>, Reps |-> <<"8">>, Weight |-> <<" ","5">>] }

RoutineRows == CompleteRoutineRows \cup IncompleteRoutineRows

RoutineFiles == UNION {[1..k -> RoutineRows] : k \in 0..MaxRows}

\* the files uploaded next to the other routine handlers
SeedRoutineFiles ==
    { <<row>> : row \in {r \in RoutineRows :
          /\ r.Routine \in {<<" ">>, <<"P">>} /\ r.MuscleGroup = <<"C">>
          /\ r.Exercise = <<"E">> /\ r.Set = <<"1">>} }

----------------------------------------------------------------------------
(* The routine handlers over one collection *)

InitRoutine ==
    /\ exerciseCollection = <<>>
    /\ routineCollection = <<>>
    /\ requests = [r \in Req |-> IdleRequest]
    /\ gatewayCalls = {}
    /\ request = NoRequest
    /\ response = NoResponse
    /\ normalizer = IdleNormalizer
    /\ writers = <<>>

NextRoutine ==
    \/ \E rows \in SeedRoutineFiles : UploadRoutinesCsv(rows)
    \/ \E routine \in RoutineModels : CreateRoutine(routine)
    \/ \E id \in IdStrings, updated_data \in RoutineModels :
          UpdateRoutine(id, updated_data)

SpecRoutine == InitRoutine /\ [][NextRoutine]_vars

\* the stored routine a successful PUT has just written
PutDocument ==
    routineCollection[CHOOSE i \in 1..Len(routineCollection) :
                         routineCollection[i]._id = request.id.oid]

PutSucceeded ==
    response.handler = "update_routine" /\ response.status = 200

----------------------------------------------------------------------------
(* The nested CSV importer on its own: one uploaded file, imported into an *)
(* empty collection                                                        *)

InitRoutineCsv ==
    /\ exerciseCollection = <<>>
    /\ routineCollection = <<>>
    /\ requests = [r \in Req |-> IdleRequest]
    /\ gatewayCalls = {}
    /\ \E rows \in RoutineFiles :
          request = [handler |-> "upload_routines_csv", rows |-> rows]
    /\ response = NoResponse
    /\ normalizer = IdleNormalizer
    /\ writers = <<>>

NextRoutineCsv ==
    /\ response = NoResponse
    /\ UploadRoutinesCsv(request.rows)

SpecRoutineCsv == InitRoutineCsv /\ [][NextRoutineCsv]_vars

\* the distinct elements of a sequence, in order of first occurrence
RECURSIVE Distinct(_)
Distinct(seq) ==
    IF seq = <<>> THEN <<>>
    ELSE LET front == Distinct(SubSeq(seq, 1, Len(seq) - 1))
             last == seq[Len(seq)]
         IN IF \E i \in 1..Len(front) : front[i] = last
            THEN front ELSE Append(front, last)

\* the rows that are not skipped: trimmed Routine, MuscleGroup and Exercise
\* all non-empty
CompleteRows(rows) ==
    SelectSeq(rows, LAMBDA row : /\ Strip(row.Routine) # <<>>
                                 /\ Strip(row.MuscleGroup) # <<>>
                                 /\ Strip(row.Exercise) # <<>>)

RoutineKey(row) == <<Strip(row.Routine)>>
GroupKey(row) == <<Strip(row.Routine), Strip(row.MuscleGroup)>>
ExerciseKey(row) ==
    <<Strip(row.Routine), Strip(row.MuscleGroup), Strip(row.Exercise)>>
TripleOf(row) == <<Strip(row.Set), Strip(row.Reps), Strip(row.Weight)>>

Keys(rows, Key(_)) == [i \in 1..Len(rows) |-> Key(rows[i])]

\* the (routine, group, exercise) entries of the stored routines, flattened
\* in document order, each with its table
StoredEntries ==
    LET OfGroup(name, group) ==
            [e \in 1..Len(group.exercises) |->
                [key |-> <<name, group.title, group.exercises[e].title>>,
                 table |-> group.exercises[e].table]]
        RECURSIVE Concat(_)
        Concat(seqs) == IF seqs = <<>> THEN <<>>
                        ELSE Head(seqs) \o Concat(Tail(seqs))
        OfRoutine(doc) ==
            Concat([g \in 1..Len(doc.groups) |-> OfGroup(doc.name, doc.groups[g])])
    IN Concat([r \in 1..Len(routineCollection) |->
                  OfRoutine(routineCollection[r])])

StoredGroupKeys ==
    LET RECURSIVE Concat(_)
        Concat(seqs) == IF seqs = <<>> THEN <<>>
                        ELSE Head(seqs) \o Concat(Tail(seqs))
    IN Concat([r \in 1..Len(routineCollection) |->
                 [g \in 1..Len(routineCollection[r].groups) |->
                    <<routineCollection[r].name,
                      routineCollection[r].groups[g].title>>]])

RECURSIVE SumLen(_)
SumLen(entries) == IF entries = <<>> THEN 0
                   ELSE Len(Head(entries).table) + SumLen(Tail(entries))

\* the groups of each routine and the exercises of each group appear in
\* first-occurrence order within their parent
OrderedWithin(keys, expected, depth) ==
    \A i, j \in 1..Len(keys) :
        (i < j /\ SubSeq(keys[i], 1, depth) = SubSeq(keys[j], 1, depth))
        => \E a, b \in 1..Len(expected) :
              a < b /\ expected[a] = keys[i] /\ expected[b] = keys[j]

SameElements(s, t) ==
    /\ Len(s) = Len(t)
    /\ {s[i] : i \in 1..Len(s)} = {t[i] : i \in 1..Len(t)}

----------------------------------------------------------------------------
(* The handlers that take an identifier, over both collections *)

InitById ==
    /\ exerciseCollection = <<>>
    /\ routineCollection = <<>>
    /\ requests = [r \in Req |-> IdleRequest]
    /\ gatewayCalls = {}
    /\ request = NoRequest
    /\ response = NoResponse
    /\ normalizer = IdleNormalizer
    /\ writers = <<>>

NextById ==
    \/ \E data \in ExerciseBodies : CreateExercise(data)
    \/ \E routine \in RoutineModels : CreateRoutine(routine)
    \/ \E id \in IdStrings : GetExerciseById(id)
    \/ \E data \in UpdateGifBodies : UpdateGifUrlById(data)
    \/ \E id \in IdStrings, updated_data \in RoutineModels :
          UpdateRoutine(id, updated_data)

SpecById == InitById /\ [][NextById]_vars

ByIdHandlers == {"get_exercise_by_id", "update_gif_url_by_id", "update_routine"}

\* the identifier a by-id request carries
IdOf(req) ==
    IF req.handler = "update_gif_url_by_id" THEN req.data.id ELSE req.id

\* a 24-digit hexadecimal string
WellFormed(id) == id.form = "hex24"

\* the request names both of its fields (POST /exercise/update-gif only)
FieldsPresent(req) ==
    req.handler = "update_gif_url_by_id" => req.data.gifUrl # ""

\* the collection a by-id request addresses
CollectionOf(req) ==
    IF req.handler = "update_routine" THEN routineCollection
    ELSE exerciseCollection

StoreUnchanged ==
    /\ exerciseCollection' = exerciseCollection
    /\ routineCollection' = routineCollection

\* C11: a step that serves GET /exercises/{id}, POST /exercise/update-gif
\* with both fields present, or PUT /routines/{id} with an identifier that
\* is not well formed answers 400 (so never 404), has awaited no store
\* operation and leaves both collections as they were; the same step with a
\* well-formed identifier that matches no record of the addressed collection
\* answers 404 and leaves both collections as they were.
C11_InvalidIdIs400AndUnknownIdIs404 ==
    [][(request'.handler \in ByIdHandlers /\ FieldsPresent(request')) =>
         /\ ~WellFormed(IdOf(request')) =>
               /\ response'.status = 400
               /\ response'.store_calls = <<>>
               /\ StoreUnchanged
         /\ (/\ WellFormed(IdOf(request'))
             /\ PositionsById(CollectionOf(request'), IdOf(request').oid) = {}) =>
               /\ response'.status = 404
               /\ StoreUnchanged]_vars

\* a malformed identifier has been posted to update-gif together with a
\* gifUrl while both collections hold records, and was answered 400
C11_Witness ==
    /\ request.handler = "update_gif_url_by_id"
    /\ request.data.id.form = "malformed"
    /\ request.data.gifUrl # ""
    /\ response.status = 400
    /\ exerciseCollection # <<>>
    /\ routineCollection # <<>>

====
